---- MODULE Spec2Model ----
(***************************************************************************)
(* A model of manage_repos/trackchanges.py: the commit summarizer          *)
(* (format_log_entries), the entry composers (create_changes_entry,        *)
(* create_dummy_changes_entry), the scoped directory change (cd) and the   *)
(* driver record_changes.                                                  *)
(*                                                                         *)
(* Python strings are TLA+ strings, handled character by character with    *)
(* Len, SubSeq and \o.  A text file is the sequence of its lines, each     *)
(* without its line terminator.  The version-control tool, the clock and   *)
(* the iteration order of a Python set are inputs of the actions.          *)
(***************************************************************************)
EXTENDS Integers, Sequences, FiniteSets, TLC

VARIABLES
    cwd,            \* the process working directory
    files,          \* the text files: path -> [exists, lines]
    checkout_node,  \* what is at checkout_dir / upstream_reponame
    tags,           \* the tag names `git tag -l` prints in the checkout
    outcome,        \* how the last call ended ("none" before any call)
    log_range,      \* the ranges format_log_entries was called with
    yielded,        \* the lines format_log_entries yielded in the last call
    inspected,      \* per-commit tool invocations of the last call
    contents,       \* the body lines create_changes_entry composed last
    call,           \* history: the last call, its arguments and inputs
    prev,           \* history: cwd and files as they were before the last call
    nops            \* history: the number of calls made

vars == <<cwd, files, checkout_node, tags, outcome, log_range, yielded,
          inspected, contents, call, prev, nops>>

----------------------------------------------------------------------------
(* Python str methods *)

Whitespace == {" ", "\t", "\n", "\r"}

CharAt(s, i) == SubSeq(s, i, i)

RECURSIVE rstrip(_)
rstrip(s) ==
    IF Len(s) = 0 THEN s
    ELSE IF CharAt(s, Len(s)) \in Whitespace
         THEN rstrip(SubSeq(s, 1, Len(s) - 1))
         ELSE s

RECURSIVE lstrip(_)
lstrip(s) ==
    IF Len(s) = 0 THEN s
    ELSE IF CharAt(s, 1) \in Whitespace
         THEN lstrip(SubSeq(s, 2, Len(s)))
         ELSE s

strip(s) == lstrip(rstrip(s))

startswith(s, p) == Len(s) >= Len(p) /\ SubSeq(s, 1, Len(p)) = p

\* p in s
contains(s, p) ==
    \E i \in 0..(Len(s) - Len(p)) : SubSeq(s, i + 1, i + Len(p)) = p

\* the index of the first occurrence of p in s, 0 when there is none
find(s, p) ==
    IF contains(s, p)
    THEN 1 + CHOOSE i \in 0..(Len(s) - Len(p)) :
                 /\ SubSeq(s, i + 1, i + Len(p)) = p
                 /\ \A j \in 0..(i - 1) : SubSeq(s, j + 1, j + Len(p)) # p
    ELSE 0

\* s.split(sep): the fields of s between the occurrences of sep
RECURSIVE split(_, _)
split(s, sep) ==
    LET i == find(s, sep)
    IN  IF i = 0 THEN <<s>>
        ELSE <<SubSeq(s, 1, i - 1)>>
                 \o split(SubSeq(s, i + Len(sep), Len(s)), sep)

\* s.replace(old, ""): every occurrence of old removed, left to right
RECURSIVE remove(_, _)
remove(s, old) ==
    LET i == find(s, old)
    IN  IF i = 0 THEN s
        ELSE SubSeq(s, 1, i - 1)
                 \o remove(SubSeq(s, i + Len(old), Len(s)), old)

\* sep.join(parts)
RECURSIVE join(_, _)
join(parts, sep) ==
    IF Len(parts) = 0 THEN ""
    ELSE IF Len(parts) = 1 THEN parts[1]
         ELSE parts[1] \o sep \o join(Tail(parts), sep)

----------------------------------------------------------------------------
(* Module constants *)

BASE_URL == "https://www.kde.org/announcements/"

URL_KINDS == {"plasma", "frameworks", "applications"}

\* URL_MAPPING[kind].format(version_to=version_to)
URL_MAPPING(kind, version_to) ==
    CASE kind = "plasma"       -> "plasma-" \o version_to \o ".php"
      [] kind = "frameworks"   -> "kde-frameworks-" \o version_to \o ".php"
      [] kind = "applications" ->
             "announce-applications-" \o version_to \o ".php"

SEPARATOR ==
    "-------------------------------------------------------------------"

\* CHANGES_TEMPLATE.format(...) as the lines print() writes: the template
\* starts and ends with a line break, and print() ends the last line.
CHANGES_TEMPLATE(date, committer, body) ==
    <<"", SEPARATOR, date \o " - " \o committer, "">> \o body \o <<"">>

\* CHANGES_ENTRY.format(subject=..., bugs=...)
CHANGES_ENTRY(subject, bugs) == "  * " \o subject \o " " \o bugs

----------------------------------------------------------------------------
(* format_log_entries *)

\* A commit as the version-control tool shows it: subject is the output of
\* `git show -s --pretty=format:%s`, show the lines of `git show`.
Commit(subject, show) == [subject |-> subject, show |-> show]

TooManyThreshold == 30

\* a slip of the comparison: the placeholder from 30 commits on
TooManyCommitsFromThreshold(all_commits) ==
    Len(all_commits) >= TooManyThreshold

TooManyCommits(all_commits) == Len(all_commits) > TooManyThreshold

IsSilent(subject) ==
    contains(subject, "GIT_SILENT") \/ contains(subject, "SVN_SILENT")

IsBugLine(line) == startswith(line, "BUG:")

BugRef(line) == "kde#" \o split(line, ":")[2]

\* ["kde#{}".format(line.split(":")[1]) for line in bug_content
\*  if line.startswith("BUG:")]
RECURSIVE BugRefs(_)
BugRefs(lines) ==
    IF Len(lines) = 0 THEN <<>>
    ELSE (IF IsBugLine(Head(lines)) THEN <<BugRef(Head(lines))>> ELSE <<>>)
             \o BugRefs(Tail(lines))

BugContent(lines) ==
    LET refs == BugRefs(lines)
    IN  IF Len(refs) = 0 THEN "" ELSE "(" \o join(refs, ", ") \o ")"

LogEntry(commit) ==
    rstrip(CHANGES_ENTRY(strip(commit.subject), BugContent(commit.show)))

\* the loop over all_commits: the entries yielded, in order
RECURSIVE ListedEntries(_)
ListedEntries(commits) ==
    IF Len(commits) = 0 THEN <<>>
    ELSE (IF IsSilent(strip(Head(commits).subject)) THEN <<>>
          ELSE <<LogEntry(Head(commits))>>)
             \o ListedEntries(Tail(commits))

\* the per-commit tool invocations of the loop: subject_cmd for every
\* commit, bug_content_cmd for every commit that is not skipped
RECURSIVE ListedInvocations(_)
ListedInvocations(commits) ==
    IF Len(commits) = 0 THEN 0
    ELSE (IF IsSilent(strip(Head(commits).subject)) THEN 1 ELSE 2)
             + ListedInvocations(Tail(commits))

\* format_log_entries, run to exhaustion.  git_ok is whether the tool can
\* be invoked at all; all_commits is what `git log` lists for the range.
format_log_entries(git_ok, all_commits) ==
    IF ~git_ok
    THEN [raised |-> TRUE, yielded |-> <<>>, inspected |-> 0]
    ELSE IF Len(all_commits) = 0
    THEN [raised |-> FALSE, yielded |-> <<"  * None">>, inspected |-> 0]
    ELSE IF TooManyCommits(all_commits)
    THEN [raised |-> FALSE,
          yielded |-> <<"  * Too many changes to list here">>,
          inspected |-> 0]
    ELSE [raised |-> FALSE,
          yielded |-> ListedEntries(all_commits),
          inspected |-> ListedInvocations(all_commits)]

----------------------------------------------------------------------------
(* The rewrite of the destination file *)

IsAbsolute(path) == startswith(path, "/")

\* a path as open() resolves it in working directory wd
Resolve(wd, path) == IF IsAbsolute(path) THEN path ELSE wd \o "/" \o path

NoFile == [exists |-> FALSE, lines |-> <<>>]

File(lines) == [exists |-> TRUE, lines |-> lines]

FileAt(fs, path) == IF path \in DOMAIN fs THEN fs[path] ELSE NoFile

\* print(line.rstrip()) of create_changes_entry
KeptLineFull(line) == rstrip(line)

\* print(line.strip()) of create_dummy_changes_entry
KeptLineDummy(line) == strip(line)

\* the fileinput loop: the entry is printed when the first line is read,
\* so a file without lines is rewritten without lines
RewrittenFull(changes_entry, lines) ==
    IF Len(lines) = 0 THEN <<>>
    ELSE changes_entry \o [i \in 1..Len(lines) |-> KeptLineFull(lines[i])]

RewrittenDummy(changes_entry, lines) ==
    IF Len(lines) = 0 THEN <<>>
    ELSE changes_entry \o [i \in 1..Len(lines) |-> KeptLineDummy(lines[i])]

\* the effect of `with fileinput.input(destination, inplace=True)` run in
\* working directory wd: a destination that cannot be opened raises
FileInputFull(fs, wd, destination, changes_entry) ==
    LET target == Resolve(wd, destination)
    IN  IF ~FileAt(fs, target).exists
        THEN [raised |-> TRUE, files |-> fs]
        ELSE [raised |-> FALSE,
              files |-> [fs EXCEPT ![target] =
                  File(RewrittenFull(changes_entry, fs[target].lines))]]

FileInputDummy(fs, wd, destination, changes_entry) ==
    LET target == Resolve(wd, destination)
    IN  IF ~FileAt(fs, target).exists
        THEN [raised |-> TRUE, files |-> fs]
        ELSE [raised |-> FALSE,
              files |-> [fs EXCEPT ![target] =
                  File(RewrittenDummy(changes_entry, fs[target].lines))]]

----------------------------------------------------------------------------
(* create_dummy_changes_entry and create_changes_entry *)

\* an optional argument: None is <<>>, a value x is <<x>>
None == <<>>

Some(x) == <<x>>

\* "{}".format(x) of an optional string
Str(opt) == IF opt = None THEN "None" ELSE opt[1]

Elements(list) == {list[i] : i \in 1..Len(list)}

\* the orders in which a for loop may visit a Python set
Orders(S) ==
    {o \in [1..Cardinality(S) -> S] :
        \A i, j \in 1..Cardinality(S) : o[i] = o[j] => i = j}

DummyEntry(version_to, committer, date) ==
    CHANGES_TEMPLATE(date, Str(committer), <<"  * Update to " \o version_to>>)

\* what a call leaves in the variables it may change
Effect(o, fs, ranges, lines, n, body) ==
    [outcome |-> o, files |-> fs, log_range |-> ranges, yielded |-> lines,
     inspected |-> n, contents |-> body]

create_dummy_changes_entry(fs, wd, ranges, version_to, destination, committer, date) ==
    LET body == <<"  * Update to " \o version_to>>
        w == FileInputDummy(fs, wd, destination,
                            DummyEntry(version_to, committer, date))
    IN  Effect(IF w.raised THEN "FileNotFoundError" ELSE "ok",
               w.files, ranges, <<>>, 0, body)

\* a lenient guard: every kind without a URL template is taken as "other"
SkipsUrlWhenUnmapped(kind) == kind \notin URL_KINDS

\* `if kind != "other"` is what guards the lookup in URL_MAPPING
SkipsUrl(kind) == kind = "other"

\* URL_MAPPING[kind] finds the key
KindHasUrl(kind) == kind \in URL_KINDS

UpdateLines(version_to, changetype) ==
    <<"- Update to " \o version_to, "  * New " \o changetype \o " release">>

UrlLines(kind, version_to) ==
    IF ~SkipsUrl(kind)
    THEN <<"  * For more details please see:",
           "  * " \o BASE_URL \o URL_MAPPING(kind, version_to)>>
    ELSE <<>>

\* the composer without its fallback line
CommitSectionAsYielded(commit_data) == commit_data

\* the commit section: what the summarizer yielded, or the fallback line
CommitSection(commit_data) ==
    IF Len(commit_data) = 0 THEN <<"  * None">> ELSE commit_data

PatchesDifference(current_patches, previous_patches) ==
    IF Len(current_patches) > 0 /\ Len(previous_patches) > 0
    THEN Elements(current_patches) \ Elements(previous_patches)
    ELSE {}

\* the loop over patches_difference, visited in order ord
RECURSIVE AddedPatches(_, _, _)
AddedPatches(ord, current_patches, previous_patches) ==
    IF Len(ord) = 0 THEN <<>>
    ELSE (IF Head(ord) \in Elements(current_patches)
          THEN <<Head(ord)>> ELSE <<>>)
             \o AddedPatches(Tail(ord), current_patches, previous_patches)

RECURSIVE RemovedPatches(_, _, _)
RemovedPatches(ord, current_patches, previous_patches) ==
    IF Len(ord) = 0 THEN <<>>
    ELSE (IF /\ Head(ord) \notin Elements(current_patches)
             /\ Head(ord) \in Elements(previous_patches)
          THEN <<Head(ord)>> ELSE <<>>)
             \o RemovedPatches(Tail(ord), current_patches, previous_patches)

add_patch_information(body, patches, text) ==
    IF Len(patches) = 0 \/ Len(body) = 0 THEN body
    ELSE body \o <<text>>
             \o [i \in 1..Len(patches) |-> CHANGES_ENTRY(patches[i], "")]

\* the two calls of _add_patch_information at the end of the patch branch
PatchSection(body, added_patches, removed_patches) ==
    add_patch_information(
        add_patch_information(body, added_patches, "- Added patches:"),
        added_patches, "- Removed patches:")

WithPatches(body, ord, current_patches, previous_patches) ==
    IF PatchesDifference(current_patches, previous_patches) # {}
    THEN PatchSection(body,
             AddedPatches(ord, current_patches, previous_patches),
             RemovedPatches(ord, current_patches, previous_patches))
    ELSE body

FullEntry(body, committer, date) ==
    Tail(CHANGES_TEMPLATE(date, Str(committer), body))

\* a: the arguments; e: the clock (date), whether the tool can be invoked
\* (git_ok) and what `git log` lists for the range (commits); ord: the
\* order in which patches_difference is visited
create_changes_entry(fs, wd, ranges, a, e, ord) ==
    LET head == UpdateLines(a.version_to, a.changetype)
        since == <<"- Changes since " \o a.version_from \o ":">>
        asked == Append(ranges, <<a.commit_from, a.commit_to>>)
        log == format_log_entries(e.git_ok, e.commits)
        body == WithPatches(
                    head \o UrlLines(a.kind, a.version_to) \o since
                         \o CommitSection(log.yielded),
                    ord, a.current_patches, a.previous_patches)
        w == FileInputFull(fs, wd, a.destination,
                           FullEntry(body, a.committer, e.date))
    IN  IF ~SkipsUrl(a.kind) /\ ~KindHasUrl(a.kind)
        THEN Effect("KeyError", fs, ranges, <<>>, 0, head)
        ELSE IF log.raised
        THEN Effect("ToolError", fs, asked, <<>>, 0,
                    head \o UrlLines(a.kind, a.version_to) \o since)
        ELSE Effect(IF w.raised THEN "FileNotFoundError" ELSE "ok",
                    w.files, asked, log.yielded, log.inspected, body)

----------------------------------------------------------------------------
(* cd, upstream_tag_available and record_changes *)

\* grep's match of a pattern in one line: a dot of the pattern matches any
\* character, every other character of a tag name here matches itself
GrepMatches(pattern, line) ==
    \E i \in 0..(Len(line) - Len(pattern)) :
        \A k \in 1..Len(pattern) :
            \/ CharAt(pattern, k) = "."
            \/ CharAt(pattern, k) = CharAt(line, i + k)

\* `git tag -l | grep {tag}` has return code 0
upstream_tag_available(tagset, tag) ==
    \E line \in tagset : GrepMatches(tag, line)

\* what is at `path`, seen from working directory wd; the checkout is the
\* one directory the model holds
RepoPath == "/src/kdelibs"

NodeAt(node, wd, path) ==
    IF Resolve(wd, path) = RepoPath THEN node ELSE "absent"

\* cd() without its try/finally: the directory is restored only when the
\* body returns
CdRestoreOnReturn(old_path, target, body_outcome) ==
    IF body_outcome = "ok" THEN old_path ELSE target

\* the working directory cd() leaves when its body ended with body_outcome
CdRestore(old_path, target, body_outcome) == old_path

PackageName(changes_file) == remove(changes_file, ".changes")

ResolvedCommitTo(tagset, package_name, version_to, branch) ==
    IF upstream_tag_available(tagset, "v" \o version_to)
    THEN "v" \o version_to
    ELSE IF package_name = "kdelibs4" THEN "KDE/4.14" ELSE branch

\* the arguments record_changes hands to create_changes_entry
EntryArgs(a, commit_to) ==
    [repo_name |-> a.upstream_reponame,
     commit_from |-> "v" \o a.version_from,
     commit_to |-> commit_to,
     version_from |-> a.version_from, version_to |-> a.version_to,
     changetype |-> a.changetype, kind |-> a.kind,
     destination |-> a.changes_file, committer |-> a.committer,
     previous_patches |-> a.previous_patches,
     current_patches |-> a.current_patches]

\* record_changes: the effect of the call and the working directory it
\* leaves.  node is what is at checkout_dir / upstream_reponame.
record_changes(fs, wd, ranges, node, tagset, a, e, ord) ==
    LET upstream_repo_path == Resolve(a.checkout_dir[1], a.upstream_reponame)
        target == Resolve(wd, upstream_repo_path)
        commit_to == ResolvedCommitTo(tagset, PackageName(a.changes_file),
                                      a.version_to, a.branch)
        inner == IF ~e.git_ok
                 THEN Effect("ToolError", fs, ranges, <<>>, 0, <<>>)
                 ELSE create_changes_entry(fs, target, ranges,
                                           EntryArgs(a, commit_to), e, ord)
        dummy == create_dummy_changes_entry(fs, wd, ranges, a.version_to,
                     a.changes_file, a.committer, e.date)
    IN  IF a.checkout_dir = None
        THEN [mode |-> "degraded", cwd |-> wd, eff |-> dummy]
        ELSE IF NodeAt(node, wd, upstream_repo_path) = "absent"
        THEN [mode |-> "degraded", cwd |-> wd, eff |-> dummy]
        ELSE IF NodeAt(node, wd, upstream_repo_path) # "dir"
        THEN [mode |-> "full", cwd |-> wd,
              eff |-> Effect("NotADirectoryError", fs, ranges, <<>>, 0, <<>>)]
        ELSE [mode |-> "full",
              cwd |-> CdRestore(wd, target, inner.outcome),
              eff |-> inner]

----------------------------------------------------------------------------
(* The calls *)

Apply(eff, wd, c) ==
    /\ outcome' = eff.outcome
    /\ files' = eff.files
    /\ log_range' = eff.log_range
    /\ yielded' = eff.yielded
    /\ inspected' = eff.inspected
    /\ contents' = eff.contents
    /\ cwd' = wd
    /\ call' = c
    /\ prev' = [cwd |-> cwd, files |-> files]
    /\ nops' = nops + 1
    /\ UNCHANGED <<checkout_node, tags>>

FormatLogEntries(commit_from, commit_to, e) ==
    LET log == format_log_entries(e.git_ok, e.commits)
    IN  Apply(Effect(IF log.raised THEN "ToolError" ELSE "ok", files,
                     <<<<commit_from, commit_to>>>>, log.yielded,
                     log.inspected, <<>>),
              cwd,
              [op |-> "format_log_entries", env |-> e])

CreateChangesEntry(a, e, ord) ==
    Apply(create_changes_entry(files, cwd, <<>>, a, e, ord), cwd,
          [op |-> "create_changes_entry", args |-> a, env |-> e, ord |-> ord])

CreateDummyChangesEntry(version_to, destination, committer, date) ==
    Apply(create_dummy_changes_entry(files, cwd, <<>>, version_to,
                                     destination, committer, date),
          cwd,
          [op |-> "create_dummy_changes_entry",
           args |-> [version_to |-> version_to, destination |-> destination,
                     committer |-> committer],
           env |-> [date |-> date]])

RecordChanges(a, e, ord) ==
    LET r == record_changes(files, cwd, <<>>, checkout_node, tags, a, e, ord)
    IN  Apply(r.eff, r.cwd,
              [op |-> "record_changes", args |-> a, env |-> e, ord |-> ord,
               mode |-> r.mode])

----------------------------------------------------------------------------
(* Inputs and specifications *)

WorkDir == "/work"

Date1 == "Thu Nov 05 10:00:00 UTC 2026"

Date2 == "Fri Nov 06 11:30:00 UTC 2026"

Committer == Some("packager@example.org")

InitWith(fs, node, tagset) ==
    /\ cwd = WorkDir
    /\ files = fs
    /\ checkout_node = node
    /\ tags = tagset
    /\ outcome = "none"
    /\ log_range = <<>>
    /\ yielded = <<>>
    /\ inspected = 0
    /\ contents = <<>>
    /\ call = [op |-> "none"]
    /\ prev = [cwd |-> WorkDir, files |-> fs]
    /\ nops = 0

Env(date, git_ok, commits) ==
    [date |-> date, git_ok |-> git_ok, commits |-> commits]

Args(version_from, version_to, kind, destination, previous_patches, current_patches) ==
    [repo_name |-> "kdelibs",
     commit_from |-> "v" \o version_from, commit_to |-> "v" \o version_to,
     version_from |-> version_from, version_to |-> version_to,
     changetype |-> "bugfix", kind |-> kind, destination |-> destination,
     committer |-> Committer,
     previous_patches |-> previous_patches,
     current_patches |-> current_patches]

\* The commits a range is made of
PlainCommit == Commit("Fix crash on exit", <<"commit 1a2b3c", "    Fix crash on exit">>)

PaddedCommit == Commit(" Tidy up the build \n", <<"commit 4d5e6f">>)

GitSilentCommit == Commit("GIT_SILENT bump version", <<"commit 778899">>)

SvnSilentCommit == Commit("SVN_SILENT made messages (.desktop file)", <<>>)

OneBugCommit == Commit("Fix leak", <<"commit aa11", "BUG: 12345", "FIXED-IN: 2.0">>)

TwoBugsCommit == Commit("Fix two crashes", <<"BUG: 111", "BUG: 222">>)

CommitKinds ==
    {PlainCommit, PaddedCommit, GitSilentCommit, SvnSilentCommit,
     OneBugCommit, TwoBugsCommit}

MaxRange == 32

PatLen == 2

\* a range of n commits that repeats the pattern pat
RangeOf(n, pat) == [i \in 1..n |-> pat[((i - 1) % PatLen) + 1]]

LogRanges ==
    {RangeOf(n, pat) : n \in 0..MaxRange, pat \in [1..PatLen -> CommitKinds]}

Dest == "/work/kate.changes"

OldLines == <<"-----", "Mon Jan 01 2024 - someone", "", "- Update to 1.0", "">>

(* One call of the summarizer, or of the composer, on ranges of 0 to      *)
(* MaxRange commits.                                                       *)
InitLog == InitWith([p \in {Dest} |-> File(OldLines)], "dir", {})

LogSummarize ==
    /\ nops = 0
    /\ \E commits \in LogRanges, git_ok \in BOOLEAN :
          FormatLogEntries("v1.0", "v2.0", Env(Date1, git_ok, commits))

LogCompose ==
    /\ nops = 0
    /\ \E commits \in LogRanges, git_ok \in BOOLEAN :
          \E kind \in {"other", "applications"} :
              CreateChangesEntry(Args("1.0", "2.0", kind, Dest, None, None),
                                 Env(Date1, git_ok, commits), <<>>)

NextLog == LogSummarize \/ LogCompose

SpecLog == InitLog /\ [][NextLog]_vars

(* One call of the composer on every pair of patch lists.                  *)
PatchNames == {"fix-build.patch", "kde4-compat.diff", "no-rpath.patch"}

MaxPatches == 2

PatchLists ==
    {l \in UNION {[1..n -> PatchNames] : n \in 0..MaxPatches} :
        \A i, j \in 1..Len(l) : l[i] = l[j] => i = j}

InitPatch == InitWith([p \in {Dest} |-> File(OldLines)], "dir", {})

PatchCompose ==
    /\ nops = 0
    /\ \E previous_patches \in PatchLists, current_patches \in PatchLists,
          commits \in {<<>>, <<PlainCommit>>} :
          \E ord \in Orders(PatchesDifference(current_patches,
                                              previous_patches)) :
              CreateChangesEntry(
                  Args("1.0", "2.0", "other", Dest, previous_patches,
                       current_patches),
                  Env(Date1, TRUE, commits), ord)

NextPatch == PatchCompose

SpecPatch == InitPatch /\ [][NextPatch]_vars

(* Up to MaxOps compose operations, in either mode, against one file.      *)
MaxOps == 2

InitialContents ==
    {<<>>,
     <<"">>,
     OldLines,
     <<"  * indented entry", "trailing blanks   ", " \t- both sides \t">>}

InitFile ==
    \E lines \in InitialContents :
        InitWith([p \in {Dest} |-> File(lines)], "dir", {})

ComposeFull ==
    /\ nops < MaxOps
    /\ \E date \in {Date1, Date2}, commits \in {<<>>, <<OneBugCommit>>} :
          CreateChangesEntry(Args("1.0", "2.0", "plasma", Dest, None, None),
                             Env(date, TRUE, commits), <<>>)

ComposeDummy ==
    /\ nops < MaxOps
    /\ \E date \in {Date1, Date2} :
          CreateDummyChangesEntry("2.0", Dest, Committer, date)

NextFile == ComposeFull \/ ComposeDummy

SpecFile == InitFile /\ [][NextFile]_vars

(* One call of record_changes in every environment: the checkout present  *)
(* as a directory, present as something else, or absent; the changes file *)
(* present or not in the working directory and in the checkout.           *)
TagNames == {"v5.0.0", "v5.1.1", "v5.1.10"}

ChangesFiles ==
    {"kdelibs4.changes", "/work/kdelibs4.changes",
     "kate.changes", "/work/kate.changes"}

RepoFiles == {"/src/kdelibs/kdelibs4.changes", "/src/kdelibs/kate.changes"}

WorkFiles == {"/work/kdelibs4.changes", "/work/kate.changes"}

Kinds == {"plasma", "frameworks", "applications", "other", "bogus"}

RecordArgs(changes_file, checkout_dir, kind) ==
    [changes_file |-> changes_file, checkout_dir |-> checkout_dir,
     version_from |-> "5.1.0", version_to |-> "5.1.1",
     upstream_reponame |-> "kdelibs", changetype |-> "bugfix",
     kind |-> kind, committer |-> Committer, branch |-> "master",
     previous_patches |-> None, current_patches |-> None]

Init ==
    \E node \in {"absent", "dir", "file"}, tagset \in SUBSET TagNames,
       in_work \in BOOLEAN, in_repo \in BOOLEAN :
        InitWith([p \in WorkFiles \cup RepoFiles |->
                     IF p \in WorkFiles
                     THEN (IF in_work THEN File(OldLines) ELSE NoFile)
                     ELSE (IF in_repo /\ node = "dir"
                           THEN File(<<"a file of the checkout">>)
                           ELSE NoFile)],
                 node, tagset)

Record ==
    /\ nops = 0
    /\ \E changes_file \in ChangesFiles, checkout_dir \in {None, Some("/src")},
          kind \in Kinds, git_ok \in BOOLEAN,
          commits \in {<<>>, <<PlainCommit>>} :
              RecordChanges(RecordArgs(changes_file, checkout_dir, kind),
                            Env(Date1, git_ok, commits), <<>>)

Next == Record

Spec == Init /\ [][Next]_vars

----------------------------------------------------------------------------
(* Properties of the summarizer, checked under SpecLog *)

\* s ends with p
endswith(s, p) ==
    Len(s) >= Len(p) /\ SubSeq(s, Len(s) - Len(p) + 1, Len(s)) = p

\* the commits of the range the last call listed
Listed == call.env.commits

Summarized == call.op = "format_log_entries" /\ outcome = "ok"

Composed == call.op = "create_changes_entry" /\ outcome = "ok"

Qualifies(commit) ==
    /\ ~contains(commit.subject, "GIT_SILENT")
    /\ ~contains(commit.subject, "SVN_SILENT")

NoneQualifies == \A i \in 1..Len(Listed) : ~Qualifies(Listed[i])

\* the place, among the yielded lines, of the line of commit i
LineOf(i) == Cardinality({j \in 1..i : Qualifies(Listed[j])})

BugLines(commit) == SelectSeq(commit.show, IsBugLine)

\* the lines of the composed body below the "- Changes since" line
BelowSince ==
    LET k == CHOOSE i \in 1..Len(contents) :
                 startswith(contents[i], "- Changes since ")
    IN  SubSeq(contents, k + 1, Len(contents))

\* C3, as stated: for every commit range with zero qualifying commits (the
\* range is empty, or every commit in it is silent), format_log_entries
\* yields exactly one line, equal to "  * None".
C3_NoneForZeroQualifying ==
    (Summarized /\ NoneQualifies) => yielded = <<"  * None">>

\* C3, amended: for every commit range of at most 30 commits with zero
\* qualifying commits, the commit section of the entry create_changes_entry
\* composes is exactly the one line "  * None"; format_log_entries yields
\* that line for an empty range and yields no line at all for a range of 1
\* to 30 commits that are all silent, where create_changes_entry adds it.
C3_NoneInComposedEntry ==
    /\ (Summarized /\ NoneQualifies /\ Len(Listed) <= 30) =>
          yielded = IF Len(Listed) = 0 THEN <<"  * None">> ELSE <<>>
    /\ (Composed /\ NoneQualifies /\ Len(Listed) <= 30) =>
          /\ yielded = IF Len(Listed) = 0 THEN <<"  * None">> ELSE <<>>
          /\ BelowSince = <<"  * None">>

C3_Witness ==
    /\ Composed
    /\ Len(Listed) > 0
    /\ NoneQualifies
    /\ yielded = <<>>
    /\ BelowSince = <<"  * None">>

\* C5: for a non-silent commit in a range of 1 to 30 commits, the bug
\* references of its lines starting with "BUG:" end the yielded line as
\* kde#<id>, comma-joined in parentheses: "BUG: 12345" gives "(kde#12345)",
\* "BUG: 111" and "BUG: 222" give "(kde#111, kde#222)".
C5_BugReferencesNormalized ==
    (Summarized /\ Len(Listed) \in 1..30) =>
        \A i \in 1..Len(Listed) :
            Qualifies(Listed[i]) =>
                /\ BugLines(Listed[i]) = <<"BUG: 12345">> =>
                      endswith(yielded[LineOf(i)], "(kde#12345)")
                /\ BugLines(Listed[i]) = <<"BUG: 111", "BUG: 222">> =>
                      endswith(yielded[LineOf(i)], "(kde#111, kde#222)")

\* C9: for every commit range with more than 30 commits format_log_entries
\* yields exactly the one line "  * Too many changes to list here", whatever
\* the commits are, and inspects no commit; a range of exactly 30 commits
\* is listed commit by commit.
C9_TooManyPlaceholder ==
    Summarized =>
        /\ Len(Listed) > 30 =>
              /\ yielded = <<"  * Too many changes to list here">>
              /\ inspected = 0
        /\ Len(Listed) = 30 =>
              /\ inspected >= 30
              /\ Len(yielded) = LineOf(30)
              /\ \A i \in 1..30 :
                    Qualifies(Listed[i]) =>
                        startswith(yielded[LineOf(i)],
                                   "  * " \o strip(Listed[i].subject))

C9_Witness ==
    /\ Summarized
    /\ Len(Listed) > 30
    /\ NoneQualifies
    /\ yielded = <<"  * Too many changes to list here">>

----------------------------------------------------------------------------
(* Properties of the patch section, checked under SpecPatch *)

\* the lines of the composed body listed under `label`: those between the
\* label and the next line that is not a "  * " entry
RECURSIVE EntriesFrom(_, _)
EntriesFrom(body, k) ==
    IF k > Len(body) \/ ~startswith(body[k], "  * ") THEN {}
    ELSE {body[k]} \cup EntriesFrom(body, k + 1)

ListedUnder(label) ==
    UNION {EntriesFrom(contents, k + 1) :
              k \in {i \in 1..Len(contents) : contents[i] = label}}

Names(lines) == {p \in PatchNames : \E l \in lines : contains(l, p)}

\* C4: the patch-set difference is computed in both directions: every
\* patch in current_patches but not in previous_patches is listed under
\* "- Added patches:", every patch in previous_patches but not in
\* current_patches under "- Removed patches:", and no patch name appears
\* under the label of the other direction.  (Both lists supplied and
\* non-empty.)
C4_PatchesBothDirections ==
    (/\ Composed
     /\ Len(call.args.current_patches) > 0
     /\ Len(call.args.previous_patches) > 0) =>
        LET current == Elements(call.args.current_patches)
            previous == Elements(call.args.previous_patches)
        IN  /\ Names(ListedUnder("- Added patches:")) = current \ previous
            /\ Names(ListedUnder("- Removed patches:")) = previous \ current

----------------------------------------------------------------------------
(* Properties of the file rewrite, checked under SpecFile *)

ComposeOps == {"create_changes_entry", "create_dummy_changes_entry"}

Wrote == call.op \in ComposeOps /\ outcome = "ok"

\* the block the last operation composed
LastBlock ==
    IF call.op = "create_changes_entry"
    THEN <<SEPARATOR, call.env.date \o " - " \o Str(call.args.committer), "">>
             \o contents \o <<"">>
    ELSE <<"", SEPARATOR,
           call.env.date \o " - " \o Str(call.args.committer), "">>
             \o contents \o <<"">>

Now == files[Dest].lines

Before == prev.files[Dest].lines

\* C1: after any sequence of n >= 1 compose operations against the same
\* destination file, for every initial content including an empty file,
\* the file holds n stacked blocks above the original content: its line
\* count grew at each operation, by the block of that operation, and the
\* block of the most recent operation is at the top.
C1_StackedEntries ==
    Wrote =>
        /\ Len(Now) > Len(Before)
        /\ Len(Now) = Len(Before) + Len(LastBlock)
        /\ SubSeq(Now, 1, Len(LastBlock)) = LastBlock

\* the string s without its trailing blanks: the longest prefix of s that
\* does not end with a blank
WithoutTrailingBlanks(s) ==
    LET ends == {n \in 0..Len(s) :
                    n = 0 \/ CharAt(s, n) \notin Whitespace}
        n == CHOOSE m \in ends : \A k \in ends : k <= m
    IN  SubSeq(s, 1, n)

\* C2: in both modes every line that was in the destination file before
\* the write is still present afterwards, in the same order and below the
\* new block, and differs from the original line only by the removal of
\* trailing whitespace.
C2_OldLinesKept ==
    Wrote =>
        /\ Len(Now) >= Len(Before)
        /\ \A i \in 1..Len(Before) :
              Now[Len(Now) - Len(Before) + i] =
                  WithoutTrailingBlanks(Before[i])

----------------------------------------------------------------------------
(* Properties of record_changes, checked under Spec *)

Recorded == call.op = "record_changes"

TagGiven == "v" \o call.args.version_to

\* C6: with an existing checkout the upper bound of the commit range handed
\* to the summarizer is "v{version_to}" when a tag of exactly that name
\* exists; when none does it is "KDE/4.14" if the package identity is
\* "kdelibs4" and the caller-supplied fallback branch name otherwise.
C6_RangeUpperBound ==
    (Recorded /\ Len(log_range) > 0) =>
        log_range[1][2] =
            IF TagGiven \in tags THEN TagGiven
            ELSE IF PackageName(call.args.changes_file) = "kdelibs4"
                 THEN "KDE/4.14"
                 ELSE call.args.branch

KnownKinds == {"plasma", "frameworks", "applications", "other"}

\* no failure of the environment: the tool can be invoked, the checkout
\* path is absent or a directory, the changes file is in the working
\* directory
CalmEnvironment ==
    /\ call.env.git_ok
    /\ checkout_node # "file"
    /\ FileAt(prev.files, Resolve(prev.cwd, call.args.changes_file)).exists

C8_WorkingDirectoryRestored ==
    Recorded => cwd = prev.cwd

C8_Witness ==
    /\ Recorded
    /\ call.mode = "full"
    /\ checkout_node = "dir"
    /\ outcome = "FileNotFoundError"
    /\ cwd = prev.cwd

\* C10: for the same changes_file argument record_changes rewrites the
\* same destination file in full mode as in degraded mode: the path is
\* resolved against the working directory in force when record_changes
\* was called, also when changes_file is relative, so the write never
\* targets a path resolved against the checkout directory.
C10_DestinationResolvedAtCall ==
    Recorded =>
        LET destination == Resolve(prev.cwd, call.args.changes_file)
        IN  /\ \A p \in DOMAIN files :
                  files[p] # prev.files[p] => p = destination
            /\ outcome = "FileNotFoundError" =>
                  ~FileAt(prev.files, destination).exists

====
